---- MODULE Spec2Model ----
(***************************************************************************)
(* A model of inplace_it: transient storage of a run-time size, carved     *)
(* from the stack frame when a fixed-size array type fits and from the     *)
(* heap otherwise, handed to a consumer through guards that track          *)
(* initialization and run the element destructors.                         *)
(*                                                                         *)
(* The sources hold three revisions of the same two layers:                *)
(*   rev "A"  src/src/lib.rs        raw &mut [T] consumers, byte limit     *)
(*   rev "B"  src/src/guards.rs     guards over &mut T / &mut [T]          *)
(*   rev "C"  src/src/guards/*.rs, src/src/alloc_array.rs                  *)
(*                                  guards over MaybeUninit<T>             *)
(* One call of one entry point is modelled: the call, the consumer's       *)
(* operations on the guard it was given, and the return or the unwinding.  *)
(* The slots of the storage count the writes and the destructor runs they  *)
(* saw; a log keeps the order of the calls of the initializer, the writes, *)
(* the destructor runs and the release of the storage.                     *)
(***************************************************************************)
EXTENDS Integers, Sequences, FiniteSets

(* ---------------------------------------------------------------- bounds *)

\* Requested sizes 0..MaxSmall are all tried, besides the BoundarySizes.
MaxSmall == 4

\* Source sequences of every length up to MaxSrcLen are handed to
\* init_copy_of / inplace_copy_of, besides the LongSources.
MaxSrcLen == 2

\* Guards over a storage of up to this many slots are sliced with every range
\* of AllRanges, those over a larger one with the FewRanges.
MaxSliceLen == 10

\* Sub-slicing operations the consumer performs in one call.
MaxSlices == 1

\* The index at which the failing initializer unwinds.
FailingIndex == 2

\* The consumer's own failure is tried after at most this many sub-slicing
\* operations.
MaxUnwindSlices == 0

\* The consumer assigns to at most this many elements of an initialized
\* guard, once each.
MaxRewrites == 1

\* The lib.rs entry points are tried with an element type that has a
\* destructor on storages of at most this many slots, and with one that has
\* none on every storage.
MaxDropSlots == 64

(* ----------------------------------------------------- program constants *)

\* First capacity step of the dispatch table: sizes up to it are exact.
Step == 32

\* Largest capacity of the dispatch table.
MaxBucket == 4096

\* The byte limit of automatic storage inplace_or_alloc_array is configured with.
DefaultLimit == 4096

\* usize::MAX on the narrowest target with a 4096 bucket (16-bit pointers).
UsizeMax == 65535

(* ------------------------------------------------------------ input sets *)

BoundarySizes == {10, 31, 32, 33, 63, 64, 65, 4096, 4097}

\* The sizes requested of the guard-based entry points.
Sizes == (0 .. MaxSmall) \cup BoundarySizes

\* The sizes requested of alloc_array directly: it has no table to end.
AllocSizes == Sizes \ {MaxBucket, MaxBucket + 1}

\* The sizes requested of the lib.rs entry points.
DispatchSizes == Sizes \cup {96, 100, 4065}

\* The sizes inplace_array is called with.
ArraySizes == (0 .. MaxSmall) \cup {33, 100, 4097}

\* size_of::<T>() of the element types tried.
ElemSizes == {1, 128}

\* Byte limits of automatic storage tried.
Limits == {0, 40, 512, 32768}

\* The limits inplace_array and inplace_copy_of are called with.
ArrayLimits == {40, 32768}


\* Element values.
Values == {1, 2}

\* The initializers handed to inplace_array: they return for every index.
TotalInitFns == {"double", "seven"}

\* The initializers handed to init / init_slice: "failing" unwinds when it
\* is called with FailingIndex.
InitFns == TotalInitFns \cup {"failing"}

\* What the consumer returns.
Results == {"r1", "r2"}

\* The sources handed to init_copy_of / inplace_copy_of.
Source(len, seed) == [i \in 1 .. len |-> 1 + ((i + seed) % 2)]

LongSources == {Source(17, 0), Source(40, 1)}

Sources == {Source(len, seed) : len \in 0 .. MaxSrcLen, seed \in {0, 1}} \cup LongSources

(* ------------------------------------------------------------------ slots *)

\* The content of a slot no value was written to.
Uninit == -1

\* The outcome of an initializer call that unwinds.
Panic == -2

\* One element slot: its content, whether it holds a live value, how many
\* times a destructor ran on it and how many times it was written.
FreshSlot == [val |-> Uninit, live |-> FALSE, drops |-> 0, writes |-> 0]

FreshMemory(n) == [i \in 1 .. n |-> FreshSlot]

\* ptr::write(item, v), forget(replace(item, v)): no destructor on the old content.
WriteSlot(s, v) == [s EXCEPT !.val = v, !.live = TRUE, !.writes = @ + 1]

\* drop_in_place(item), drop(replace(item, uninitialized())).
DropSlot(s) == [s EXCEPT !.live = FALSE, !.drops = @ + 1]

\* *item = v: the old content is destructed, then v is stored.
AssignSlot(s, v) == WriteSlot(DropSlot(s), v)

\* index -> value of an initializer closure.
InitValue(f, index) ==
    CASE f = "double" -> index * 2
      [] f = "seven" -> 7
      [] OTHER -> IF index = FailingIndex THEN Panic ELSE index + 1

\* |index| source[index].clone(): indexing past the source unwinds.
CloneOf(source, index) ==
    IF index < Len(source) THEN source[index + 1] ELSE Panic

(* ----------------------------------------------------------------- ranges *)

Unbounded == [kind |-> "Unbounded", n |-> 0]
Included(n) == [kind |-> "Included", n |-> n]
Excluded(n) == [kind |-> "Excluded", n |-> n]

\* usize::saturating_add(1)
SaturatingAdd1(n) == IF n >= UsizeMax THEN UsizeMax ELSE n + 1

\* &mut memory[start..end] unwinds unless start <= end <= len.
IndexOk(len, start, end) == start <= end /\ end <= len

StartBounds(len) ==
    {Unbounded, Included(0), Included(1), Included(3), Included(len + 1),
     Excluded(0), Excluded(UsizeMax)}

EndBounds(len) ==
    {Unbounded, Excluded(1), Excluded(7), Excluded(len), Excluded(len + 1),
     Included(0), Included(2), Included(len), Included(UsizeMax)}

AllRanges(len) == [s : StartBounds(len), e : EndBounds(len)]

FewRanges(len) ==
    {[s |-> Unbounded, e |-> Unbounded],
     [s |-> Unbounded, e |-> Excluded(len + 1)],
     [s |-> Included(3), e |-> Excluded(7)],
     [s |-> Excluded(0), e |-> Included(len)],
     [s |-> Excluded(UsizeMax), e |-> Unbounded],
     [s |-> Included(1), e |-> Included(2)]}

\* The ranges the consumer slices a guard of length len with, over a storage
\* of cap slots.
Ranges(len, cap) == IF cap <= MaxSliceLen THEN AllRanges(len) ELSE FewRanges(len)

\* The range ..n
RangeTo(n) == [s |-> Unbounded, e |-> Excluded(n)]

\* let start = match range.start_bound() { ... }
SliceStart(range) ==
    CASE range.s.kind = "Excluded" -> SaturatingAdd1(range.s.n)
      [] range.s.kind = "Included" -> range.s.n
      [] OTHER -> 0

\* let end = match range.end_bound() { ... }
SliceEnd(range, len) ==
    CASE range.e.kind = "Excluded" -> range.e.n
      [] range.e.kind = "Included" -> SaturatingAdd1(range.e.n)
      [] OTHER -> len

\* guards.rs: let end = match range.start_bound() { ... }
GuardsSliceEnd(range, len) ==
    CASE range.s.kind = "Excluded" -> range.s.n
      [] range.s.kind = "Included" -> SaturatingAdd1(range.s.n)
      [] OTHER -> len

(* ----------------------------------------------------------------- guards *)

\* A guard: "uninit" or "init" over slots start .. start + len - 1 of the
\* storage (0-based), "raw" for a plain &mut [T], "none" once consumed.
NoGuard == [st |-> "none", start |-> 0, len |-> 0]

UninitGuard(start, len) == [st |-> "uninit", start |-> start, len |-> len]

InitGuard(start, len) == [st |-> "init", start |-> start, len |-> len]

RawSlice(start, len) == [st |-> "raw", start |-> start, len |-> len]
\* guards.rs: UninitializedMemoryGuard<[E; N]>, the guard over an array that
\* implements FixedArray
FixedGuard(len) == [st |-> "fixed", start |-> 0, len |-> len]
\* guards.rs: MemoryGuard<[E; N]>, the guard over an initialized array
InitFixedGuard(len) == [st |-> "init_fixed", start |-> 0, len |-> len]

\* The guard owns initialized values: it destructs them when it goes out of
\* scope.
OwnsValues(g) == g.st \in {"init", "init_fixed"}

\* Whether 1-based slot i of the storage lies in the guard.
InGuard(g, i) == g.start < i /\ i <= g.start + g.len

\* The results of init(0), ..., init(len - 1) of an initializer closure.
InitValues(f, len) == [k \in 1 .. len |-> InitValue(f, k - 1)]

\* The results of the closure |index| source[index].clone() on 0 .. len - 1.
CloneValues(source, len) == [k \in 1 .. len |-> CloneOf(source, k - 1)]

\* The results of an initializer that yields v.
ConstValues(v, len) == [k \in 1 .. len |-> v]

\* The first index at which the initializer unwinds, the number of results
\* if none does.
PanicIndex(vals) ==
    IF \E k \in 1 .. Len(vals) : vals[k] = Panic
    THEN (CHOOSE k \in 1 .. Len(vals) :
              vals[k] = Panic /\ \A j \in 1 .. k - 1 : vals[j] # Panic) - 1
    ELSE Len(vals)

\* for (index, item) in memory.into_iter().enumerate() { write(item, init(index)) }
\* up to the first initializer call that unwinds.
WriteEach(m, g, vals) ==
    LET stop == PanicIndex(vals)
    IN  [i \in 1 .. Len(m) |->
            IF g.start < i /\ i <= g.start + stop
            THEN WriteSlot(m[i], vals[i - g.start])
            ELSE m[i]]

\* DropEach stopping one item short.
DropEachButLast(m, g) ==
    [i \in 1 .. Len(m) |->
        IF g.start < i /\ i < g.start + g.len THEN DropSlot(m[i]) ELSE m[i]]

\* for item in self.memory.into_iter() { drop_in_place(item) }
DropEach(m, g) ==
    [i \in 1 .. Len(m) |-> IF InGuard(g, i) THEN DropSlot(m[i]) ELSE m[i]]

\* AssignEach counting the items from 1.
AssignEachFromOne(m, g, f) ==
    [i \in 1 .. Len(m) |->
        IF InGuard(g, i) THEN AssignSlot(m[i], InitValue(f, i - g.start)) ELSE m[i]]

\* for (index, item) in memory.into_iter().enumerate() { *item = init(index) }
AssignEach(m, g, f) ==
    [i \in 1 .. Len(m) |->
        IF InGuard(g, i) THEN AssignSlot(m[i], InitValue(f, i - 1 - g.start)) ELSE m[i]]

\* *item = init(index) for an element type without a destructor: the result
\* is stored and nothing else happens.
StoreEach(m, g, f) ==
    [i \in 1 .. Len(m) |->
        IF InGuard(g, i) THEN WriteSlot(m[i], InitValue(f, i - 1 - g.start)) ELSE m[i]]

\* memory.clone_from_slice(source) for an element type without a destructor.
StoreFromSlice(m, g, source) ==
    [i \in 1 .. Len(m) |->
        IF InGuard(g, i) THEN WriteSlot(m[i], CloneOf(source, i - 1 - g.start)) ELSE m[i]]

\* memory.clone_from_slice(source): every item is assigned the clone of the
\* source's item.
CloneFromSlice(m, g, source) ==
    [i \in 1 .. Len(m) |->
        IF InGuard(g, i) THEN AssignSlot(m[i], CloneOf(source, i - 1 - g.start)) ELSE m[i]]

\* A destructor runs on a slot of the guard that holds no live value.
DropsDead(m, g) == \E i \in 1 .. Len(m) : InGuard(g, i) /\ ~m[i].live

\* What dereferencing a guard yields: the contents of its slots.
Deref(m, g) == [j \in 1 .. g.len |-> m[g.start + j].val]

(* ----------------------------------------------------------------- events *)

\* What a call does, in the order it does it: the consumer is invoked, the
\* initializer is called with an index, a slot of the storage (0-based) is
\* written or destructed, the storage is released.
Invoke == [ev |-> "invoke", at |-> 0]
Call(index) == [ev |-> "call", at |-> index]
Write(slot) == [ev |-> "write", at |-> slot]
Drop(slot) == [ev |-> "drop", at |-> slot]
Release == [ev |-> "release", at |-> 0]

\* memory.into_iter().enumerate(): the (index, slot) pairs of a guard in the
\* order the iterator yields them.
Enumerate(g) == [k \in 1 .. g.len |-> [index |-> k - 1, slot |-> g.start + k - 1]]

\* Enumerate from the back.
EnumerateRev(g) == [k \in 1 .. g.len |-> [index |-> g.len - k, slot |-> g.start + g.len - k]]

\* InitEvents walking the guard from the back.
InitEventsDescending(g, vals) ==
    LET it == EnumerateRev(g)
        stop == PanicIndex(vals)
        n == IF stop < g.len THEN 2 * stop + 1 ELSE 2 * stop
    IN  [j \in 1 .. n |->
            IF j % 2 = 1 THEN Call(it[(j + 1) \div 2].index) ELSE Write(it[j \div 2].slot)]

\* for (index, item) in memory.into_iter().enumerate() { write(item, init(index)) }:
\* init(index) is called, then its result is written to the item, up to and
\* including the call that unwinds.
InitEvents(g, vals) ==
    LET it == Enumerate(g)
        stop == PanicIndex(vals)
        n == IF stop < g.len THEN 2 * stop + 1 ELSE 2 * stop
    IN  [j \in 1 .. n |->
            IF j % 2 = 1 THEN Call(it[(j + 1) \div 2].index) ELSE Write(it[j \div 2].slot)]

\* forget(replace(self.memory, value)), write(memory.as_mut_ptr(), value): the
\* value is moved into the slots of the guard; no initializer is called.
WriteEvents(g) == [k \in 1 .. g.len |-> Write(g.start + k - 1)]

\* for item in self.memory.into_iter() { drop_in_place(item) }
DropEvents(g) ==
    LET it == Enumerate(g)
    IN  [k \in 1 .. g.len |-> Drop(it[k].slot)]

\* for (index, item) in memory.into_iter().enumerate() { *item = init(index) }:
\* init(index) is called, the item's old content is destructed, the result
\* is stored.
AssignEvents(g) ==
    LET it == Enumerate(g)
    IN  [j \in 1 .. 3 * g.len |->
            CASE j % 3 = 1 -> Call(it[(j + 2) \div 3].index)
              [] j % 3 = 2 -> Drop(it[(j + 1) \div 3].slot)
              [] OTHER -> Write(it[j \div 3].slot)]

\* The events of the assignment of every item of g: with the destructor of
\* the old content when the element type has one.
ItemEvents(nd, g) ==
    IF nd THEN AssignEvents(g)
    ELSE LET it == Enumerate(g)
         IN  [j \in 1 .. 2 * g.len |->
                 IF j % 2 = 1 THEN Call(it[(j + 1) \div 2].index) ELSE Write(it[j \div 2].slot)]

(* --------------------------------------------------------------- dispatch *)

\* The capacities FixedArray is implemented for (lib.rs).
SupportedCapacities == (0 .. Step) \cup {Step * k : k \in 1 .. (MaxBucket \div Step)}

\* Bucket with the rows' upper ends excluded: 64 falls into the row of 96.
BucketEndExcluded(n) ==
    IF n <= Step THEN n
    ELSE LET k == CHOOSE k \in 2 .. (MaxBucket \div Step) + 1 :
                      Step * (k - 1) <= n /\ n < Step * k
         IN  Step * k

\* match size { 0 => 0, 1 => 1, ..., 32 => 32, 33..=64 => 64, ..., 4065..=4096 => 4096 }
\* for a size the table covers.
Bucket(n) ==
    IF n <= Step THEN n
    ELSE LET k == CHOOSE k \in 2 .. (MaxBucket \div Step) :
                      Step * (k - 1) + 1 <= n /\ n <= Step * k
         IN  Step * k

\* SafeInplace testing the bytes of the requested size.
SafeInplaceRequested(n, lim, es) == n = 0 \/ es * n <= lim

\* size_of::<[T; $size]>() <= limit, which inplace!(0) does not consult.
SafeInplace(n, lim, es) == n = 0 \/ es * Bucket(n) <= lim

\* Placement sending the size the table treats apart, 0, to the heap.
PlacementZeroOnHeap(n, lim, es) ==
    IF 0 < n /\ n <= MaxBucket /\ SafeInplace(n, lim, es)
    THEN [storage |-> "stack", cap |-> Bucket(n)]
    ELSE [storage |-> "heap", cap |-> n]

\* The storage inplace_array_uninitialized picks: the frame's array of the
\* bucket, or a vector of exactly the requested size.
Placement(n, lim, es) ==
    IF n <= MaxBucket /\ SafeInplace(n, lim, es)
    THEN [storage |-> "stack", cap |-> Bucket(n)]
    ELSE [storage |-> "heap", cap |-> n]

(* ------------------------------------------------------------ fixed_array *)

\* The targets fixed_array.rs is configured for: target_pointer_width.
PointerWidths == {8, 16, 32, 64, 128}

\* impl_fixed_array_for_array!(lengths): one impl<T> FixedArray for [T; $length]
\* per length; array is the N of [T; N], len what its len() returns.
impl_fixed_array_for_array(lengths) ==
    [k \in 1 .. Len(lengths) |-> [array |-> lengths[k], len |-> lengths[k]]]

\* The ten lengths a group macro derives from $length with a step.
TenFrom(length, step) == [k \in 1 .. 10 |-> length + step * (k - 1)]

\* impl_fixed_array_for_array_group_10!($length): $length, $length + 1, ...,
\* $length + 9 handed to impl_fixed_array_for_array!.
impl_fixed_array_for_array_group_10(length) ==
    impl_fixed_array_for_array(TenFrom(length, 1))

\* impl_fixed_array_for_array_group_100!($length): $length, $length + 10, ...,
\* $length + 90 handed to impl_fixed_array_for_array!.
impl_fixed_array_for_array_group_100(length) ==
    impl_fixed_array_for_array(TenFrom(length, 10))

\* impl_fixed_array_for_array_group_1_000!($length): $length, $length + 100,
\* ..., $length + 900 handed to impl_fixed_array_for_array_group_100!.
impl_fixed_array_for_array_group_1_000(length) ==
    LET at == TenFrom(length, 100)
    IN  impl_fixed_array_for_array_group_100(at[1])
            \o impl_fixed_array_for_array_group_100(at[2])
            \o impl_fixed_array_for_array_group_100(at[3])
            \o impl_fixed_array_for_array_group_100(at[4])
            \o impl_fixed_array_for_array_group_100(at[5])
            \o impl_fixed_array_for_array_group_100(at[6])
            \o impl_fixed_array_for_array_group_100(at[7])
            \o impl_fixed_array_for_array_group_100(at[8])
            \o impl_fixed_array_for_array_group_100(at[9])
            \o impl_fixed_array_for_array_group_100(at[10])

\* impl_fixed_array_for_array_group_10_000!($length): $length, $length + 1000,
\* ..., $length + 9000 handed to impl_fixed_array_for_array_group_1_000!.
impl_fixed_array_for_array_group_10_000(length) ==
    LET at == TenFrom(length, 1000)
    IN  impl_fixed_array_for_array_group_1_000(at[1])
            \o impl_fixed_array_for_array_group_1_000(at[2])
            \o impl_fixed_array_for_array_group_1_000(at[3])
            \o impl_fixed_array_for_array_group_1_000(at[4])
            \o impl_fixed_array_for_array_group_1_000(at[5])
            \o impl_fixed_array_for_array_group_1_000(at[6])
            \o impl_fixed_array_for_array_group_1_000(at[7])
            \o impl_fixed_array_for_array_group_1_000(at[8])
            \o impl_fixed_array_for_array_group_1_000(at[9])
            \o impl_fixed_array_for_array_group_1_000(at[10])

\* impl_fixed_array_for_array_group_100_000!($length): $length,
\* $length + 10000, ..., $length + 90000 handed to
\* impl_fixed_array_for_array_group_10_000!.
impl_fixed_array_for_array_group_100_000(length) ==
    LET at == TenFrom(length, 10000)
    IN  impl_fixed_array_for_array_group_10_000(at[1])
            \o impl_fixed_array_for_array_group_10_000(at[2])
            \o impl_fixed_array_for_array_group_10_000(at[3])
            \o impl_fixed_array_for_array_group_10_000(at[4])
            \o impl_fixed_array_for_array_group_10_000(at[5])
            \o impl_fixed_array_for_array_group_10_000(at[6])
            \o impl_fixed_array_for_array_group_10_000(at[7])
            \o impl_fixed_array_for_array_group_10_000(at[8])
            \o impl_fixed_array_for_array_group_10_000(at[9])
            \o impl_fixed_array_for_array_group_10_000(at[10])

\* impl_fixed_array_for_array_group_1_000_000!($length): $length,
\* $length + 100000, ..., $length + 900000 handed to
\* impl_fixed_array_for_array_group_100_000!.
impl_fixed_array_for_array_group_1_000_000(length) ==
    LET at == TenFrom(length, 100000)
    IN  impl_fixed_array_for_array_group_100_000(at[1])
            \o impl_fixed_array_for_array_group_100_000(at[2])
            \o impl_fixed_array_for_array_group_100_000(at[3])
            \o impl_fixed_array_for_array_group_100_000(at[4])
            \o impl_fixed_array_for_array_group_100_000(at[5])
            \o impl_fixed_array_for_array_group_100_000(at[6])
            \o impl_fixed_array_for_array_group_100_000(at[7])
            \o impl_fixed_array_for_array_group_100_000(at[8])
            \o impl_fixed_array_for_array_group_100_000(at[9])
            \o impl_fixed_array_for_array_group_100_000(at[10])

\* The impls under #[cfg(target_pointer_width = "8")].
FixedArrayImpls8 ==
    impl_fixed_array_for_array_group_100(0)
        \o impl_fixed_array_for_array_group_10(100)
        \o impl_fixed_array_for_array_group_10(110)
        \o impl_fixed_array_for_array(<<120, 121, 122, 123, 124, 125, 126, 127>>)

\* The impls under #[cfg(target_pointer_width = "16")].
FixedArrayImpls16 ==
    impl_fixed_array_for_array_group_10_000(0)
        \o impl_fixed_array_for_array_group_10_000(10000)
        \o impl_fixed_array_for_array_group_10_000(20000)
        \o impl_fixed_array_for_array_group_10_000(30000)
        \o impl_fixed_array_for_array_group_10_000(40000)
        \o impl_fixed_array_for_array_group_10_000(50000)
        \o impl_fixed_array_for_array_group_1_000(60000)
        \o impl_fixed_array_for_array_group_1_000(61000)
        \o impl_fixed_array_for_array_group_1_000(62000)
        \o impl_fixed_array_for_array_group_1_000(63000)
        \o impl_fixed_array_for_array_group_1_000(64000)
        \o impl_fixed_array_for_array_group_100(65100)
        \o impl_fixed_array_for_array_group_100(65200)
        \o impl_fixed_array_for_array_group_100(65300)
        \o impl_fixed_array_for_array_group_100(65400)
        \o impl_fixed_array_for_array_group_10(65500)
        \o impl_fixed_array_for_array_group_10(65510)
        \o impl_fixed_array_for_array_group_10(65520)
        \o impl_fixed_array_for_array(<<65530, 65531, 65532, 65533, 65534, 65535>>)

\* The impls under #[cfg(target_pointer_width = "32")]; those under "64" and
\* "128" repeat them.
FixedArrayImpls32 ==
    impl_fixed_array_for_array_group_1_000_000(0)
        \o impl_fixed_array_for_array_group_10_000(1000000)
        \o impl_fixed_array_for_array_group_10_000(1010000)
        \o impl_fixed_array_for_array_group_10_000(1020000)
        \o impl_fixed_array_for_array_group_10_000(1030000)
        \o impl_fixed_array_for_array_group_1_000(1040000)
        \o impl_fixed_array_for_array_group_1_000(1041000)
        \o impl_fixed_array_for_array_group_1_000(1042000)
        \o impl_fixed_array_for_array_group_1_000(1043000)
        \o impl_fixed_array_for_array_group_1_000(1044000)
        \o impl_fixed_array_for_array_group_1_000(1045000)
        \o impl_fixed_array_for_array_group_1_000(1046000)
        \o impl_fixed_array_for_array_group_1_000(1047000)
        \o impl_fixed_array_for_array_group_100(1048000)
        \o impl_fixed_array_for_array_group_100(1048100)
        \o impl_fixed_array_for_array_group_100(1048200)
        \o impl_fixed_array_for_array_group_100(1048300)
        \o impl_fixed_array_for_array_group_100(1048400)
        \o impl_fixed_array_for_array_group_10(1048500)
        \o impl_fixed_array_for_array_group_10(1048510)
        \o impl_fixed_array_for_array_group_10(1048520)
        \o impl_fixed_array_for_array_group_10(1048530)
        \o impl_fixed_array_for_array_group_10(1048540)
        \o impl_fixed_array_for_array_group_10(1048550)
        \o impl_fixed_array_for_array_group_10(1048560)
        \o impl_fixed_array_for_array(<<1048570, 1048571, 1048572, 1048573, 1048574, 1048575>>)

\* The impls of FixedArray a target of the pointer width compiles.
FixedArrayImpls(width) ==
    CASE width = 8 -> FixedArrayImpls8
      [] width = 16 -> FixedArrayImpls16
      [] OTHER -> FixedArrayImpls32

(* ------------------------------------------------------------------ state *)

VARIABLES
    pc,        \* position of the call
    entry,     \* the entry point called
    rev,       \* the revision of the guards in use: "A", "B" or "C"
    size,      \* requested size
    limit,     \* byte limit of automatic storage
    elemSize,  \* size_of::<T>()
    needsDrop, \* needs_drop::<T>(): the element type has a destructor
    storage,   \* "none", "stack" or "heap"
    mem,       \* the slots of the storage
    released,  \* the storage was given back
    ub,        \* a destructor ran on a slot holding no live value
    guard,     \* the guard (or raw slice) the consumer holds
    seenLen,   \* len() of what the consumer was invoked with, -1 before
    seen,      \* the contents of the raw slice the consumer was invoked with
    slices,    \* sub-slicing operations done
    lastOp,    \* the last guard operation, its argument and the guard it consumed
    log,       \* the events of the call so far
    invoked,   \* how many times the consumer was invoked
    result,    \* what the consumer returned, "none" before
    returnValue \* what the call returned, "none" before

vars == <<pc, entry, rev, size, limit, elemSize, needsDrop, storage, mem, released, ub,
          guard, seenLen, seen, slices, lastOp, log, invoked, result, returnValue>>

NoOp == [op |-> "none", range |-> RangeTo(0), src |-> << >>, fn |-> "", parent |-> NoGuard]

Init ==
    /\ pc = "idle"
    /\ entry = "none"
    /\ rev = "-"
    /\ size = 0
    /\ limit = 0
    /\ elemSize = 1
    /\ needsDrop = TRUE
    /\ storage = "none"
    /\ mem = << >>
    /\ released = FALSE
    /\ ub = FALSE
    /\ guard = NoGuard
    /\ seenLen = -1
    /\ seen = << >>
    /\ slices = 0
    /\ lastOp = NoOp
    /\ log = << >>
    /\ invoked = 0
    /\ result = "none"
    /\ returnValue = "none"

(* ---------------------------------------------------------- entry points *)

\* The state in which the consumer is invoked with guard g over fresh storage.
Enter(e, r, nd, n, lim, es, st, cap, g) ==
    /\ entry' = e
    /\ needsDrop' = nd
    /\ rev' = r
    /\ size' = n
    /\ limit' = lim
    /\ elemSize' = es
    /\ storage' = st
    /\ mem' = FreshMemory(cap)
    /\ guard' = g
    /\ seenLen' = g.len
    /\ log' = Append(log, Invoke)
    /\ invoked' = invoked + 1
    /\ pc' = "consumer"

\* The lengths N of the arrays [E; N] inplace is entered with; each has an
\* impl of FixedArray.
FixedArrayLengths == {0, 1, 4}

\* The calls of inplace: over a single value, or over an array [E; N].
InplaceEntries == {"inplace", "inplace_fixed_array"}

\* guards.rs inplace: ManuallyDrop::new(uninitialized::<T>()) in the frame,
\* then the consumer with the guard over it. T is a single value (one slot)
\* or an array [E; N] that implements FixedArray (N slots).
\* uninitialized::<T>() for a single value whose type has invalid bit
\* patterns is undefined behaviour: it returns, or it ends the process
\* before the consumer is invoked. For an array it returns.
inplace ==
    /\ pc = "idle"
    /\ \/ \E r \in {"B", "C"} :
             Enter("inplace", r, TRUE, 1, 0, 1, "stack", 1, UninitGuard(0, 1))
       \/ \E n \in FixedArrayLengths :
             Enter("inplace_fixed_array", "B", TRUE, n, 0, 1, "stack", n, FixedGuard(n))
       \/ /\ entry' = "inplace"
          /\ needsDrop' = TRUE
          /\ rev' = "B"
          /\ size' = 1
          /\ limit' = 0
          /\ elemSize' = 1
          /\ storage' = "stack"
          /\ mem' = FreshMemory(1)
          /\ pc' = "aborted"
          /\ UNCHANGED <<guard, seenLen, log, invoked>>
    /\ UNCHANGED <<released, ub, seen, slices, lastOp, result, returnValue>>

\* VecLen rounded up to the bucket of the size.
VecLenRounded(n) == IF n <= MaxBucket THEN Bucket(n) ELSE n

\* The length alloc_array gives its vector: memory_holder.set_len(size).
VecLen(n) == n

\* alloc_array dropping the consumer it was handed instead of calling it.
alloc_array_skipping_consumer ==
    /\ pc = "alloc_array"
    /\ storage' = "heap"
    /\ mem' = FreshMemory(VecLen(size))
    /\ pc' = "consumer_done"
    /\ UNCHANGED <<needsDrop, entry, rev, size, limit, elemSize, released, ub, guard, seenLen,
                   seen, slices, lastOp, log, invoked, result, returnValue>>

\* alloc_array.rs alloc_array up to the call of the consumer: a vector of
\* MaybeUninit<T>, called directly or with the consumer try_inplace_array
\* handed back.
alloc_array ==
    /\ \/ /\ pc = "idle"
          /\ \E n \in AllocSizes :
                Enter("alloc_array", "C", TRUE, n, 0, 1, "heap", VecLen(n), UninitGuard(0, VecLen(n)))
       \/ /\ pc = "alloc_array"
          /\ Enter(entry, rev, needsDrop, size, limit, elemSize, "heap", VecLen(size), UninitGuard(0, VecLen(size)))
    /\ UNCHANGED <<released, ub, seen, slices, lastOp, result, returnValue>>

\* guards.rs inplace when the consumer unwinds: the ManuallyDrop holder ends
\* with the frame and runs no destructor.
inplace_unwind ==
    /\ pc = "unwinding"
    /\ ~OwnsValues(guard)
    /\ entry \in InplaceEntries
    /\ released' = TRUE
    /\ pc' = "panicked"
    /\ log' = Append(log, Release)
    /\ UNCHANGED <<needsDrop, entry, rev, size, limit, elemSize, storage, mem, ub, guard,
                   seenLen, seen, slices, lastOp, invoked, result, returnValue>>

\* Every slot of the storage is destructed: a T, a [T; N] or a Vec<T> going
\* out of scope, then the storage is released.
DropStorage ==
    /\ mem' = DropEach(mem, RawSlice(0, Len(mem)))
    /\ ub' = (ub \/ DropsDead(mem, RawSlice(0, Len(mem))))
    /\ released' = TRUE
    /\ log' = log \o DropEvents(RawSlice(0, Len(mem))) \o <<Release>>

\* The storage of elements that have no destructor goes out of scope: it is
\* released and nothing else happens.
ReleaseStorage ==
    /\ released' = TRUE
    /\ log' = Append(log, Release)
    /\ UNCHANGED <<mem, ub>>

\* What the end of the local or of the Vec<T> does to its slots.
EndStorage == IF needsDrop THEN DropStorage ELSE ReleaseStorage

\* The first slot that holds no live value, 0 when there is none.
FirstDead(m) ==
    IF \E i \in 1 .. Len(m) : ~m[i].live
    THEN CHOOSE i \in 1 .. Len(m) : ~m[i].live /\ \A j \in 1 .. i - 1 : m[j].live
    ELSE 0

\* The destructor of a slot that holds no live value is undefined behaviour,
\* and so is every destructor that runs after it: the slots in which the
\* destruction of the storage may fail.
DropFailureSlots ==
    IF ~needsDrop THEN {}
    ELSE IF ub THEN 1 .. Len(mem)
    ELSE IF FirstDead(mem) = 0 THEN {}
    ELSE FirstDead(mem) .. Len(mem)

\* The process ends in the destructor of slot i, with the slots before it
\* destructed, the storage not released and nothing returned.
DropStorageAborts ==
    /\ \E i \in DropFailureSlots :
          /\ mem' = DropEach(mem, RawSlice(0, i - 1))
          /\ log' = log \o DropEvents(RawSlice(0, i - 1))
    /\ ub' = TRUE
    /\ pc' = "aborted"
    /\ UNCHANGED <<released, returnValue>>

\* A destructor of the storage unwinds: the slots after it are destructed by
\* the unwinding, the storage is released and the call ends in a panic.
DropStorageUnwinds ==
    /\ DropFailureSlots # {}
    /\ DropStorage
    /\ pc' = "panicked"
    /\ UNCHANGED returnValue

\* Every slot is destructed and the buffer is freed, then the process ends.
DropStorageFreedAborts ==
    /\ DropFailureSlots # {}
    /\ DropStorage
    /\ pc' = "aborted"
    /\ UNCHANGED returnValue

\* alloc_array_return with a vector that destructs its elements.
alloc_array_return_dropping ==
    /\ pc = "consumer_done"
    /\ rev = "C"
    /\ storage = "heap"
    /\ DropStorage
    /\ pc' = "returned"
    /\ returnValue' = result
    /\ UNCHANGED <<needsDrop, entry, rev, size, limit, elemSize, storage, guard,
                   seenLen, seen, slices, lastOp, invoked, result>>

\* alloc_array_return forgetting the vector instead of freeing it.
alloc_array_return_leaking ==
    /\ pc = "consumer_done"
    /\ rev = "C"
    /\ storage = "heap"
    /\ pc' = "returned"
    /\ returnValue' = result
    /\ UNCHANGED <<needsDrop, entry, rev, size, limit, elemSize, storage, mem, released, ub,
                   guard, seenLen, seen, slices, lastOp, log, invoked, result>>

\* alloc_array.rs alloc_array after the consumer returned:
\* memory_holder.set_len(0), then the vector is freed.
alloc_array_return ==
    /\ pc = "consumer_done"
    /\ rev = "C"
    /\ storage = "heap"
    /\ released' = TRUE
    /\ pc' = "returned"
    /\ log' = Append(log, Release)
    /\ returnValue' = result
    /\ UNCHANGED <<needsDrop, entry, rev, size, limit, elemSize, storage, mem, ub, guard,
                   seenLen, seen, slices, lastOp, invoked, result>>

\* alloc_array.rs alloc_array when the consumer unwinds: the vector of
\* MaybeUninit<T> is freed with its length still size; MaybeUninit runs no
\* destructor.
alloc_array_unwind ==
    /\ pc = "unwinding"
    /\ ~OwnsValues(guard)
    /\ rev = "C"
    /\ storage = "heap"
    /\ released' = TRUE
    /\ pc' = "panicked"
    /\ log' = Append(log, Release)
    /\ UNCHANGED <<needsDrop, entry, rev, size, limit, elemSize, storage, mem, ub, guard,
                   seenLen, seen, slices, lastOp, invoked, result, returnValue>>

\* alloc_array.rs inplace_or_alloc_array: match try_inplace_array(size, consumer).
inplace_or_alloc_array ==
    /\ pc = "idle"
    /\ \E n \in Sizes, es \in ElemSizes :
          /\ entry' = "inplace_or_alloc_array"
          /\ needsDrop' = TRUE
          /\ rev' = "C"
          /\ size' = n
          /\ limit' = DefaultLimit
          /\ elemSize' = es
    /\ pc' = "try_inplace_array"
    /\ UNCHANGED <<storage, mem, released, ub, guard, seenLen, seen, slices, lastOp,
                   log, invoked, result, returnValue>>

\* try_inplace_array: the frame's array of the bucket, truncated to the
\* requested size, when the bucket's bytes are within the limit and the table
\* covers the size; the consumer handed back otherwise.
try_inplace_array ==
    /\ pc = "try_inplace_array"
    /\ IF size <= MaxBucket /\ elemSize * Bucket(size) <= limit
       THEN Enter(entry, rev, needsDrop, size, limit, elemSize, "stack", Bucket(size), UninitGuard(0, size))
       ELSE /\ pc' = "alloc_array"
            /\ UNCHANGED <<needsDrop, entry, rev, size, limit, elemSize, storage, mem, guard, seenLen,
                           log, invoked>>
    /\ UNCHANGED <<released, ub, seen, slices, lastOp, result, returnValue>>

\* try_inplace_array after the consumer returned: the frame's array of
\* MaybeUninit<T> ends; it runs no destructor.
try_inplace_array_return ==
    /\ pc = "consumer_done"
    /\ entry = "inplace_or_alloc_array"
    /\ storage = "stack"
    /\ released' = TRUE
    /\ pc' = "returned"
    /\ log' = Append(log, Release)
    /\ returnValue' = result
    /\ UNCHANGED <<needsDrop, entry, rev, size, limit, elemSize, storage, mem, ub, guard,
                   seenLen, seen, slices, lastOp, invoked, result>>

\* try_inplace_array when the consumer unwinds: the frame's array ends the
\* same way.
try_inplace_array_unwind ==
    /\ pc = "unwinding"
    /\ ~OwnsValues(guard)
    /\ entry = "inplace_or_alloc_array"
    /\ storage = "stack"
    /\ released' = TRUE
    /\ pc' = "panicked"
    /\ log' = Append(log, Release)
    /\ UNCHANGED <<needsDrop, entry, rev, size, limit, elemSize, storage, mem, ub, guard,
                   seenLen, seen, slices, lastOp, invoked, result, returnValue>>

\* inplace_return with a holder that destructs its content.
inplace_return_dropping ==
    /\ pc = "consumer_done"
    /\ entry \in InplaceEntries
    /\ DropStorage
    /\ pc' = "returned"
    /\ returnValue' = result
    /\ UNCHANGED <<needsDrop, entry, rev, size, limit, elemSize, storage, guard,
                   seenLen, seen, slices, lastOp, invoked, result>>

\* guards.rs inplace after the consumer returned: the ManuallyDrop holder
\* ends with the frame and runs no destructor.
inplace_return ==
    /\ pc = "consumer_done"
    /\ entry \in InplaceEntries
    /\ released' = TRUE
    /\ pc' = "returned"
    /\ log' = Append(log, Release)
    /\ returnValue' = result
    /\ UNCHANGED <<needsDrop, entry, rev, size, limit, elemSize, storage, mem, ub, guard,
                   seenLen, seen, slices, lastOp, invoked, result>>

\* guards.rs alloc_array up to the call of the consumer: a vector of T.
guards_alloc_array ==
    /\ pc = "idle"
    /\ \E n \in AllocSizes :
          Enter("alloc_array", "B", TRUE, n, 0, 1, "heap", n, UninitGuard(0, n))
    /\ UNCHANGED <<released, ub, seen, slices, lastOp, result, returnValue>>

\* guards.rs alloc_array after the consumer returned: set_len(0), then the
\* vector is freed.
guards_alloc_array_return ==
    /\ pc = "consumer_done"
    /\ rev = "B"
    /\ storage = "heap"
    /\ released' = TRUE
    /\ pc' = "returned"
    /\ log' = Append(log, Release)
    /\ returnValue' = result
    /\ UNCHANGED <<needsDrop, entry, rev, size, limit, elemSize, storage, mem, ub, guard,
                   seenLen, seen, slices, lastOp, invoked, result>>

\* guards.rs alloc_array when the consumer unwinds: the vector of T is
\* dropped with its length still size, which destructs every slot. The
\* process may end in a destructor; when a destructor unwinds, the other
\* slots are destructed and the buffer is freed before the process ends.
guards_alloc_array_unwind ==
    /\ pc = "unwinding"
    /\ ~OwnsValues(guard)
    /\ rev = "B"
    /\ storage = "heap"
    /\ \/ DropStorage /\ pc' = "panicked" /\ UNCHANGED returnValue
       \/ DropStorageAborts
       \/ DropStorageFreedAborts
    /\ UNCHANGED <<needsDrop, entry, rev, size, limit, elemSize, storage, guard,
                   seenLen, seen, slices, lastOp, invoked, result>>

\* lib.rs inplace_array_uninitialized: the consumer gets the whole array of
\* the bucket, or the whole vector.
inplace_array_uninitialized ==
    /\ pc = "idle"
    /\ \E n \in DispatchSizes, lim \in Limits, es \in ElemSizes, nd \in BOOLEAN :
          LET p == Placement(n, lim, es)
          IN  /\ nd => p.cap <= MaxDropSlots
              /\ Enter("inplace_array_uninitialized", "A", nd, n, lim, es,
                       p.storage, p.cap, RawSlice(0, p.cap))
    /\ UNCHANGED <<released, ub, seen, slices, lastOp, result, returnValue>>

\* *item = value destructs the old content of the item when the element type
\* has a destructor. The old content is uninitialized memory: undefined
\* behaviour. The destructor runs to its end for every item, or the process
\* ends in it at item k: the items before k are assigned, the value for item
\* k is made, the consumer is not invoked.
AssignAborts(k) ==
    /\ ub' = TRUE
    /\ log' = Append(AssignEvents(RawSlice(0, k)), Call(k))
    /\ pc' = "aborted"
    /\ UNCHANGED <<guard, seenLen, seen, lastOp, invoked>>

\* Or the destructor of the old content of item k unwinds: the value is
\* stored on the unwinding path as well, the items through k are assigned
\* and the call unwinds with the consumer not invoked.
AssignUnwinds(k) ==
    /\ ub' = TRUE
    /\ log' = AssignEvents(RawSlice(0, k + 1))
    /\ pc' = "unwinding"
    /\ UNCHANGED <<guard, seenLen, seen, lastOp, invoked>>

\* init(k) unwinds: the items before k are assigned, the consumer is not
\* invoked.
InitUnwinds(k) ==
    /\ ub' = (needsDrop' /\ k > 0)
    /\ log' = Append(ItemEvents(needsDrop', RawSlice(0, k)), Call(k))
    /\ pc' = "unwinding"
    /\ UNCHANGED <<guard, seenLen, seen, lastOp, invoked>>

\* Every item was assigned: the consumer is invoked with the slice g.
AssignedAll(g) ==
    /\ ub' = (needsDrop' /\ g.len > 0)
    /\ guard' = g
    /\ seenLen' = g.len
    /\ seen' = Deref(mem', g)
    /\ log' = Append(ItemEvents(needsDrop', g), Invoke)
    /\ invoked' = invoked + 1
    /\ pc' = "consumer"

\* lib.rs inplace_array: &mut memory[..size], *item = init(index) for every
\* item, then the consumer.
inplace_array ==
    /\ pc = "idle"
    /\ \E n \in ArraySizes, lim \in ArrayLimits, es \in ElemSizes, f \in InitFns, nd \in BOOLEAN :
          LET p == Placement(n, lim, es)
              g == RawSlice(0, n)
              stop == PanicIndex(InitValues(f, n))
              fresh == FreshMemory(p.cap)
          IN  /\ nd => p.cap <= MaxDropSlots
              /\ entry' = "inplace_array"
              /\ rev' = "A"
              /\ needsDrop' = nd
              /\ size' = n
              /\ limit' = lim
              /\ elemSize' = es
              /\ storage' = p.storage
              /\ \/ /\ stop = n
                    /\ mem' = (IF nd THEN AssignEach(fresh, g, f) ELSE StoreEach(fresh, g, f))
                    /\ lastOp' = [NoOp EXCEPT !.op = "init", !.fn = f]
                    /\ AssignedAll(g)
                 \/ /\ nd
                    /\ \E k \in 0 .. stop - 1 :
                          /\ mem' = AssignEach(fresh, RawSlice(0, k), f)
                          /\ AssignAborts(k)
                 \/ /\ nd
                    /\ \E k \in 0 .. stop - 1 :
                          /\ mem' = AssignEach(fresh, RawSlice(0, k + 1), f)
                          /\ AssignUnwinds(k)
                 \/ /\ stop < n
                    /\ mem' = (IF nd THEN AssignEach(fresh, RawSlice(0, stop), f)
                                     ELSE StoreEach(fresh, RawSlice(0, stop), f))
                    /\ InitUnwinds(stop)
    /\ UNCHANGED <<released, slices, result, returnValue>>

\* lib.rs inplace_copy_of: &mut memory[..source_length],
\* memory.clone_from_slice(source), then the consumer.
inplace_copy_of ==
    /\ pc = "idle"
    /\ \E src \in Sources, lim \in ArrayLimits, es \in ElemSizes, nd \in BOOLEAN :
          LET n == Len(src)
              p == Placement(n, lim, es)
              g == RawSlice(0, n)
              fresh == FreshMemory(p.cap)
          IN  /\ nd => p.cap <= MaxDropSlots
              /\ entry' = "inplace_copy_of"
              /\ rev' = "A"
              /\ needsDrop' = nd
              /\ size' = n
              /\ limit' = lim
              /\ elemSize' = es
              /\ storage' = p.storage
              /\ \/ /\ mem' = (IF nd THEN CloneFromSlice(fresh, g, src)
                                     ELSE StoreFromSlice(fresh, g, src))
                    /\ lastOp' = [NoOp EXCEPT !.op = "init_copy_of", !.src = src]
                    /\ AssignedAll(g)
                 \/ /\ nd
                    /\ \E k \in 0 .. n - 1 :
                          /\ mem' = CloneFromSlice(fresh, RawSlice(0, k), src)
                          /\ AssignAborts(k)
                 \/ /\ nd
                    /\ \E k \in 0 .. n - 1 :
                          /\ mem' = CloneFromSlice(fresh, RawSlice(0, k + 1), src)
                          /\ AssignUnwinds(k)
    /\ UNCHANGED <<released, slices, result, returnValue>>

\* lib.rs inplace called directly: a local of type T from uninitialized(),
\* which ends the process for a T that has invalid bit patterns, then the
\* consumer with &mut T.
lib_inplace ==
    /\ pc = "idle"
    /\ \/ \E nd \in BOOLEAN :
             Enter("lib_inplace", "A", nd, 1, 0, 1, "stack", 1, RawSlice(0, 1))
       \/ /\ entry' = "lib_inplace"
          /\ needsDrop' \in BOOLEAN
          /\ rev' = "A"
          /\ size' = 1
          /\ limit' = 0
          /\ elemSize' = 1
          /\ storage' = "stack"
          /\ mem' = FreshMemory(1)
          /\ pc' = "aborted"
          /\ UNCHANGED <<guard, seenLen, log, invoked>>
    /\ UNCHANGED <<released, ub, seen, slices, lastOp, result, returnValue>>

\* lib.rs inplace after the consumer returned: the local goes out of scope.
\* Its destructors run to their end, or the process ends in one of them, or
\* one of them unwinds.
lib_inplace_return ==
    /\ pc = "consumer_done"
    /\ rev = "A"
    /\ storage = "stack"
    /\ \/ EndStorage /\ pc' = "returned" /\ returnValue' = result
       \/ DropStorageAborts
       \/ DropStorageUnwinds
    /\ UNCHANGED <<needsDrop, entry, rev, size, limit, elemSize, storage, guard,
                   seenLen, seen, slices, lastOp, invoked, result>>

\* lib.rs alloc_array after the consumer returned: the Vec<T>, its length
\* still size, goes out of scope, with the same three outcomes.
lib_alloc_array_return ==
    /\ pc = "consumer_done"
    /\ rev = "A"
    /\ storage = "heap"
    /\ \/ EndStorage /\ pc' = "returned" /\ returnValue' = result
       \/ DropStorageAborts
       \/ DropStorageUnwinds
    /\ UNCHANGED <<needsDrop, entry, rev, size, limit, elemSize, storage, guard,
                   seenLen, seen, slices, lastOp, invoked, result>>

\* lib.rs inplace when the closure unwinds: the local is dropped by the
\* unwinding; a destructor that unwinds in turn ends the process.
lib_inplace_unwind ==
    /\ pc = "unwinding"
    /\ rev = "A"
    /\ storage = "stack"
    /\ \/ EndStorage /\ pc' = "panicked" /\ UNCHANGED returnValue
       \/ DropStorageAborts
    /\ UNCHANGED <<needsDrop, entry, rev, size, limit, elemSize, storage, guard,
                   seenLen, seen, slices, lastOp, invoked, result>>

\* lib.rs alloc_array when the closure unwinds: the Vec<T>, its length
\* still size, is dropped by the unwinding; the process may end in a
\* destructor, or after the buffer was freed.
lib_alloc_array_unwind ==
    /\ pc = "unwinding"
    /\ rev = "A"
    /\ storage = "heap"
    /\ \/ EndStorage /\ pc' = "panicked" /\ UNCHANGED returnValue
       \/ DropStorageAborts
       \/ DropStorageFreedAborts
    /\ UNCHANGED <<needsDrop, entry, rev, size, limit, elemSize, storage, guard,
                   seenLen, seen, slices, lastOp, invoked, result>>

\* The consumer returns a result; it holds no initialized guard any more.
consumer_return ==
    /\ pc = "consumer"
    /\ ~OwnsValues(guard)
    /\ guard' = NoGuard
    /\ \E r \in Results : result' = r
    /\ pc' = "consumer_done"
    /\ UNCHANGED <<needsDrop, entry, rev, size, limit, elemSize, storage, mem, released, ub,
                   seenLen, seen, slices, lastOp, log, invoked, returnValue>>

\* The consumer unwinds. An initialized guard it holds is dropped by the
\* unwinding before the frame of the entry point is.
consumer_unwind ==
    /\ pc = "consumer"
    /\ slices <= MaxUnwindSlices
    /\ pc' = "unwinding"
    /\ UNCHANGED <<needsDrop, entry, rev, size, limit, elemSize, storage, mem, released, ub,
                   guard, seenLen, seen, slices, lastOp, log, invoked, result,
                   returnValue>>

(* ----------------------------------------------------- guard operations *)

\* SliceGuard clamping the range to the guard instead of unwinding.
SliceGuardClamped(g, start, end) ==
    LET e == IF end > g.len THEN g.len ELSE end
        b == IF start > e THEN e ELSE start
    IN  UninitGuard(g.start + b, e - b)

\* &mut self.memory[start..end] of a guard: the narrower guard, or NoGuard
\* when the indexing unwinds.
SliceGuard(g, start, end) ==
    IF IndexOk(g.len, start, end)
    THEN UninitGuard(g.start + start, end - start)
    ELSE NoGuard

\* uninitialized_slice_memory_guard.rs slice
slice(g, range) == SliceGuard(g, SliceStart(range), SliceEnd(range, g.len))

\* guards.rs slice
guards_slice(g, range) == SliceGuard(g, SliceStart(range), GuardsSliceEnd(range, g.len))

\* The consumer holds an uninitialized slice guard of revision r.
HoldsUninitSlice(r) ==
    /\ pc = "consumer"
    /\ rev = r
    /\ entry # "inplace"
    /\ guard.st = "uninit"

\* The consumer slices its guard with a range; sub is what slice returned.
Sliced(range, sub) ==
    /\ slices < MaxSlices
    /\ slices' = slices + 1
    /\ guard' = sub
    /\ pc' = IF sub = NoGuard THEN "unwinding" ELSE pc
    /\ UNCHANGED <<needsDrop, entry, rev, size, limit, elemSize, storage, mem, released, ub,
                   seenLen, seen, log, invoked, result, returnValue>>

\* The slots of sub are written with the initializer's results vals, up to a
\* call of it that unwinds; sub = NoGuard when slicing already unwound.
Initialized(sub, vals) ==
    /\ mem' = IF sub = NoGuard THEN mem ELSE WriteEach(mem, sub, vals)
    /\ log' = IF sub = NoGuard THEN log ELSE log \o InitEvents(sub, vals)
    /\ IF sub = NoGuard \/ PanicIndex(vals) < sub.len
       THEN guard' = NoGuard /\ pc' = "unwinding"
       ELSE guard' = InitGuard(sub.start, sub.len) /\ pc' = pc
    /\ UNCHANGED <<needsDrop, entry, rev, size, limit, elemSize, storage, released, ub,
                   seenLen, seen, slices, invoked, result, returnValue>>

\* The value is moved into the slots of the guard, which becomes the guard
\* held over it.
ValueInitialized(vals, held) ==
    /\ mem' = WriteEach(mem, guard, vals)
    /\ log' = log \o WriteEvents(guard)
    /\ lastOp' = [NoOp EXCEPT !.op = "init", !.src = vals, !.parent = guard]
    /\ guard' = held
    /\ UNCHANGED <<pc, needsDrop, entry, rev, size, limit, elemSize, storage, released, ub,
                   seenLen, seen, slices, invoked, result, returnValue>>

\* unwrap(self): the guard is given up for the memory it guards.
Unwrapped ==
    /\ lastOp' = [NoOp EXCEPT !.op = "unwrap", !.parent = guard]
    /\ guard' = RawSlice(guard.start, guard.len)
    /\ UNCHANGED <<pc, needsDrop, entry, rev, size, limit, elemSize, storage, mem, released,
                   ub, seenLen, seen, slices, log, invoked, result, returnValue>>

\* drop(replace(item, uninitialized())) of guards.rs for an item whose type
\* has invalid bit patterns is undefined behaviour: uninitialized() returns
\* and the item is destructed, or it ends the process at the first item,
\* before any destructor ran. This is the second outcome.
UninitializedAborts ==
    /\ guard.len >= 1
    /\ lastOp' = [NoOp EXCEPT !.op = "drop", !.parent = guard]
    /\ guard' = NoGuard
    /\ pc' = "aborted"
    /\ UNCHANGED <<needsDrop, entry, rev, size, limit, elemSize, storage, mem, released, ub,
                   seenLen, seen, slices, log, invoked, result, returnValue>>

\* The initialized guard goes out of scope, in the consumer or by the
\* unwinding of it: every slot of it is destructed.
Dropped ==
    /\ mem' = DropEach(mem, guard)
    /\ ub' = (ub \/ DropsDead(mem, guard))
    /\ log' = log \o DropEvents(guard)
    /\ lastOp' = [NoOp EXCEPT !.op = "drop", !.parent = guard]
    /\ guard' = NoGuard
    /\ UNCHANGED <<pc, needsDrop, entry, rev, size, limit, elemSize, storage, released,
                   seenLen, seen, slices, invoked, result, returnValue>>

\* The values the consumer assigns through an initialized guard.
RewriteValues == {2}

\* The indexes at which the consumer assigns through a guard of len elements:
\* the first and the last element of a guard of at most MaxSliceLen elements.
RewriteIndexes(len) == {i \in {0, len - 1} : 0 <= i /\ i < len /\ len <= MaxSliceLen}

\* The elements of guard g the consumer assigned to.
RewrittenIn(g) == {i \in RewriteIndexes(g.len) : mem[g.start + i + 1].writes > 1}

\* The elements of the guard the consumer holds that it assigned to.
Rewritten == RewrittenIn(guard)

\* How many values slot i of the initialized guard g held, one after the
\* other: the one init stored, and those the consumer assigned to it.
ValuesHeld(g, i) == IF i - 1 - g.start \in RewrittenIn(g) THEN mem[i].writes ELSE 1

\* The consumer assigns v to element index of the initialized guard through
\* deref_mut: the old value is destructed, then v is stored.
AssignedThrough(index, v) ==
    LET slot == guard.start + index + 1
    IN  /\ index \notin Rewritten
        /\ Cardinality(Rewritten) < MaxRewrites
        /\ mem' = [mem EXCEPT ![slot] = AssignSlot(@, v)]
        /\ ub' = (ub \/ ~mem[slot].live)
        /\ log' = log \o <<Drop(slot - 1), Write(slot - 1)>>
        /\ lastOp' = [NoOp EXCEPT !.op = "deref_mut", !.parent = guard]
        /\ UNCHANGED <<pc, needsDrop, entry, rev, size, limit, elemSize, storage, released,
                       guard, seenLen, seen, slices, invoked, result, returnValue>>

\* slice_memory_guard.rs DerefMut for SliceMemoryGuard, the consumer writing
\* guard[index] = v
SliceMemoryGuard_deref_mut ==
    /\ pc = "consumer"
    /\ rev = "C"
    /\ entry # "inplace"
    /\ guard.st = "init"
    /\ \E index \in RewriteIndexes(guard.len), v \in RewriteValues : AssignedThrough(index, v)

\* memory_guard.rs DerefMut for MemoryGuard, the consumer writing *guard = v
MemoryGuard_deref_mut ==
    /\ pc = "consumer"
    /\ rev = "C"
    /\ entry = "inplace"
    /\ guard.st = "init"
    /\ \E v \in RewriteValues : AssignedThrough(0, v)

\* guards.rs DerefMut for SliceMemoryGuard, the consumer writing
\* guard[index] = v
guards_SliceMemoryGuard_deref_mut ==
    /\ pc = "consumer"
    /\ rev = "B"
    /\ entry # "inplace"
    /\ guard.st = "init"
    /\ \E index \in RewriteIndexes(guard.len), v \in RewriteValues : AssignedThrough(index, v)

\* guards.rs DerefMut for MemoryGuard, the consumer writing *guard = v to
\* the single value, or guard[index] = v to the array [E; N]
guards_MemoryGuard_deref_mut ==
    /\ pc = "consumer"
    /\ rev = "B"
    /\ \/ /\ entry = "inplace"
          /\ guard.st = "init"
          /\ \E v \in RewriteValues : AssignedThrough(0, v)
       \/ /\ guard.st = "init_fixed"
          /\ \E index \in RewriteIndexes(guard.len), v \in RewriteValues : AssignedThrough(index, v)

\* uninitialized_slice_memory_guard.rs UninitializedSliceMemoryGuard::slice
UninitializedSliceMemoryGuard_slice ==
    /\ HoldsUninitSlice("C")
    /\ \E range \in Ranges(guard.len, Len(mem)) :
          /\ Sliced(range, slice(guard, range))
          /\ lastOp' = [NoOp EXCEPT !.op = "slice", !.range = range, !.parent = guard]

\* uninitialized_slice_memory_guard.rs UninitializedSliceMemoryGuard::init,
\* slice_memory_guard.rs SliceMemoryGuard::new
UninitializedSliceMemoryGuard_init ==
    /\ HoldsUninitSlice("C")
    /\ \E f \in InitFns :
          /\ Initialized(guard, InitValues(f, guard.len))
          /\ lastOp' = [NoOp EXCEPT !.op = "init", !.fn = f, !.parent = guard]

\* uninitialized_slice_memory_guard.rs UninitializedSliceMemoryGuard::init_copy_of
UninitializedSliceMemoryGuard_init_copy_of ==
    /\ HoldsUninitSlice("C")
    /\ \E src \in Sources :
          /\ LET sub == slice(guard, RangeTo(Len(src)))
             IN  Initialized(sub, CloneValues(src, sub.len))
          /\ lastOp' = [NoOp EXCEPT !.op = "init_copy_of", !.src = src, !.parent = guard]

\* slice_memory_guard.rs Drop for SliceMemoryGuard
SliceMemoryGuard_drop ==
    /\ pc \in {"consumer", "unwinding"}
    /\ rev = "C"
    /\ entry # "inplace"
    /\ guard.st = "init"
    /\ Dropped

\* uninitialized_memory_guard.rs UninitializedMemoryGuard::init,
\* memory_guard.rs MemoryGuard::new
UninitializedMemoryGuard_init ==
    /\ pc = "consumer"
    /\ rev = "C"
    /\ entry = "inplace"
    /\ guard.st = "uninit"
    /\ \E v \in Values :
          ValueInitialized(ConstValues(v, guard.len), InitGuard(guard.start, guard.len))

\* uninitialized_memory_guard.rs UninitializedMemoryGuard::unwrap
UninitializedMemoryGuard_unwrap ==
    /\ pc = "consumer"
    /\ rev = "C"
    /\ entry = "inplace"
    /\ guard.st = "uninit"
    /\ Unwrapped

\* memory_guard.rs Drop for MemoryGuard
MemoryGuard_drop ==
    /\ pc \in {"consumer", "unwinding"}
    /\ rev = "C"
    /\ entry = "inplace"
    /\ guard.st = "init"
    /\ Dropped

\* guards.rs UninitializedMemoryGuard<[I]>::slice
guards_UninitializedMemoryGuard_slice ==
    /\ HoldsUninitSlice("B")
    /\ \E range \in Ranges(guard.len, Len(mem)) :
          /\ Sliced(range, guards_slice(guard, range))
          /\ lastOp' = [NoOp EXCEPT !.op = "slice", !.range = range, !.parent = guard]

\* guards.rs UninitializedMemoryGuard<[I]>::init_slice
guards_UninitializedMemoryGuard_init_slice ==
    /\ HoldsUninitSlice("B")
    /\ \E f \in InitFns :
          /\ Initialized(guard, InitValues(f, guard.len))
          /\ lastOp' = [NoOp EXCEPT !.op = "init", !.fn = f, !.parent = guard]

\* guards.rs UninitializedMemoryGuard<[I]>::init_copy_of
guards_UninitializedMemoryGuard_init_copy_of ==
    /\ HoldsUninitSlice("B")
    /\ \E src \in Sources :
          /\ LET sub == guards_slice(guard, RangeTo(Len(src)))
             IN  Initialized(sub, CloneValues(src, sub.len))
          /\ lastOp' = [NoOp EXCEPT !.op = "init_copy_of", !.src = src, !.parent = guard]

\* guards.rs Drop for SliceMemoryGuard
guards_SliceMemoryGuard_drop ==
    /\ pc \in {"consumer", "unwinding"}
    /\ rev = "B"
    /\ entry # "inplace"
    /\ guard.st = "init"
    /\ \/ Dropped
       \/ UninitializedAborts

\* guards.rs UninitializedMemoryGuard<T>::init
\* over a single value, or over a whole array [E; N]
guards_UninitializedMemoryGuard_init ==
    /\ pc = "consumer"
    /\ rev = "B"
    /\ \E v \in Values :
          \/ /\ entry = "inplace"
             /\ guard.st = "uninit"
             /\ ValueInitialized(ConstValues(v, guard.len), InitGuard(guard.start, guard.len))
          \/ /\ guard.st = "fixed"
             /\ ValueInitialized(ConstValues(v, guard.len), InitFixedGuard(guard.len))

\* guards.rs Drop for MemoryGuard: drop(replace(self.memory, uninitialized())),
\* of a single value, or of a whole array [E; N], for which uninitialized()
\* returns.
guards_MemoryGuard_drop ==
    /\ pc \in {"consumer", "unwinding"}
    /\ rev = "B"
    /\ \/ /\ entry = "inplace"
          /\ guard.st = "init"
          /\ \/ Dropped
             \/ UninitializedAborts
       \/ /\ guard.st = "init_fixed"
          /\ Dropped

\* guards.rs UninitializedMemoryGuard<T: ?Sized>::unwrap, of the guard over a
\* single value, over an array or over a slice
guards_UninitializedMemoryGuard_unwrap ==
    /\ pc = "consumer"
    /\ rev = "B"
    /\ guard.st \in {"uninit", "fixed"}
    /\ Unwrapped

\* guards.rs UninitializedMemoryGuard<T: FixedArray>::len: T::len()
guards_FixedArray_len(g) == g.len

\* self.memory.as_slice_mut() under a new guard: the slice guard over the N
\* slots of the array.
IntoSliceGuard(g) == UninitGuard(g.start, guards_FixedArray_len(g))

\* guards.rs UninitializedMemoryGuard<T: FixedArray>::into_slice_guard
guards_FixedArray_into_slice_guard ==
    /\ pc = "consumer"
    /\ rev = "B"
    /\ guard.st = "fixed"
    /\ guard' = IntoSliceGuard(guard)
    /\ UNCHANGED <<pc, needsDrop, entry, rev, size, limit, elemSize, storage, mem, released,
                   ub, seenLen, seen, slices, lastOp, log, invoked, result,
                   returnValue>>

\* guards.rs UninitializedMemoryGuard<T: FixedArray>::slice:
\* self.into_slice_guard().slice(range)
guards_FixedArray_slice ==
    /\ pc = "consumer"
    /\ rev = "B"
    /\ guard.st = "fixed"
    /\ \E range \in Ranges(guard.len, Len(mem)) :
          LET whole == IntoSliceGuard(guard)
          IN  /\ Sliced(range, guards_slice(whole, range))
              /\ lastOp' = [NoOp EXCEPT !.op = "slice", !.range = range, !.parent = whole]

\* guards.rs UninitializedMemoryGuard<T: FixedArray>::init_slice:
\* self.into_slice_guard().init_slice(init)
guards_FixedArray_init_slice ==
    /\ pc = "consumer"
    /\ rev = "B"
    /\ guard.st = "fixed"
    /\ \E f \in InitFns :
          LET whole == IntoSliceGuard(guard)
          IN  /\ Initialized(whole, InitValues(f, whole.len))
              /\ lastOp' = [NoOp EXCEPT !.op = "init", !.fn = f, !.parent = whole]

\* guards.rs UninitializedMemoryGuard<T: FixedArray>::init_copy_of:
\* self.into_slice_guard().init_copy_of(source)
guards_FixedArray_init_copy_of ==
    /\ pc = "consumer"
    /\ rev = "B"
    /\ guard.st = "fixed"
    /\ \E src \in Sources :
          LET whole == IntoSliceGuard(guard)
              sub == guards_slice(whole, RangeTo(Len(src)))
          IN  /\ Initialized(sub, CloneValues(src, sub.len))
              /\ lastOp' = [NoOp EXCEPT !.op = "init_copy_of", !.src = src, !.parent = whole]

(* ---------------------------------------------------------- specification *)

Next ==
    \/ SliceMemoryGuard_deref_mut
    \/ MemoryGuard_deref_mut
    \/ guards_SliceMemoryGuard_deref_mut
    \/ guards_MemoryGuard_deref_mut
    \/ inplace
    \/ lib_inplace
    \/ inplace_return
    \/ inplace_unwind
    \/ alloc_array
    \/ alloc_array_return
    \/ alloc_array_unwind
    \/ inplace_or_alloc_array
    \/ try_inplace_array
    \/ try_inplace_array_return
    \/ try_inplace_array_unwind
    \/ guards_alloc_array
    \/ guards_alloc_array_return
    \/ guards_alloc_array_unwind
    \/ inplace_array_uninitialized
    \/ inplace_array
    \/ inplace_copy_of
    \/ lib_inplace_return
    \/ lib_alloc_array_return
    \/ lib_inplace_unwind
    \/ lib_alloc_array_unwind
    \/ consumer_return
    \/ consumer_unwind
    \/ UninitializedSliceMemoryGuard_slice
    \/ UninitializedSliceMemoryGuard_init
    \/ UninitializedSliceMemoryGuard_init_copy_of
    \/ SliceMemoryGuard_drop
    \/ UninitializedMemoryGuard_init
    \/ MemoryGuard_drop
    \/ guards_UninitializedMemoryGuard_slice
    \/ guards_UninitializedMemoryGuard_init_slice
    \/ guards_UninitializedMemoryGuard_init_copy_of
    \/ guards_SliceMemoryGuard_drop
    \/ guards_UninitializedMemoryGuard_init
    \/ guards_MemoryGuard_drop
    \/ UninitializedMemoryGuard_unwrap
    \/ guards_UninitializedMemoryGuard_unwrap
    \/ guards_FixedArray_into_slice_guard
    \/ guards_FixedArray_slice
    \/ guards_FixedArray_init_slice
    \/ guards_FixedArray_init_copy_of

Spec == Init /\ [][Next]_vars

(* ----------------------------------------------------------------- claims *)

\* The call returned to its caller.
Returned == pc = "returned"

\* The consumer initialized the whole guard it was given and let the
\* initialized guard go out of scope.
InitializedAllAndDropped ==
    /\ slices = 0
    /\ lastOp.op = "drop"
    /\ lastOp.parent = InitGuard(0, size)

\* The consumer never called init or init_copy_of.
NeverInitialized == lastOp.op \in {"none", "slice"}

\* The range's own lower end: the included start, one past the excluded
\* start, 0 when unbounded.
RangeLow(range) ==
    CASE range.s.kind = "Included" -> range.s.n
      [] range.s.kind = "Excluded" -> range.s.n + 1
      [] OTHER -> 0

\* The range's own upper end (exclusive): the excluded end, one past the
\* included end, the length when unbounded.
RangeHigh(range, len) ==
    CASE range.e.kind = "Excluded" -> range.e.n
      [] range.e.kind = "Included" -> range.e.n + 1
      [] OTHER -> len

\* The range lies within a guard of length len.
InBounds(range, len) ==
    RangeLow(range) <= RangeHigh(range, len) /\ RangeHigh(range, len) <= len

\* ceil(n / 32) * 32
RoundUp(n) == ((n + Step - 1) \div Step) * Step

\* The bucket of the documentation: exact up to 32, rounded up beyond.
DocBucket(n) == IF n <= Step THEN n ELSE RoundUp(n)

C3_NoDestructionWithoutInit ==
    (/\ entry \in {"inplace_or_alloc_array", "alloc_array"}
     /\ pc \in {"consumer", "consumer_done", "returned"}
     /\ NeverInitialized)
        => (\A i \in 1 .. Len(mem) : mem[i].drops = 0) /\ ~ub

\* C3 witness: alloc_array(33) of the MaybeUninit revision returned and
\* released its vector after a consumer that only sub-sliced the guard.
C3_Witness ==
    /\ Returned
    /\ released
    /\ entry = "alloc_array"
    /\ rev = "C"
    /\ size = 33
    /\ lastOp.op = "slice"

\* C4: the guard inplace_or_alloc_array invokes the consumer with has len()
\* equal to the requested size, from the frame's bucket and from the heap.
C4_ExactObservedLength ==
    (entry = "inplace_or_alloc_array" /\ seenLen # -1) => seenLen = size

\* C4 witness: inplace_or_alloc_array(33) of a 128-byte element fell back to
\* the heap because the 64-element bucket exceeds the byte limit.
C4_Witness ==
    /\ entry = "inplace_or_alloc_array"
    /\ size = 33
    /\ elemSize = 128
    /\ storage = "heap"
    /\ seenLen = 33

\* C5: the bucket of every size n of 0..4096 is n up to 32 and ceil(n/32)*32
\* beyond; it is at least n, it is the smallest supported capacity that is,
\* and it does not decrease with n; and the array a call places in the frame
\* has the bucket of the requested size.
C5_BucketSelection ==
    /\ pc = "idle" =>
          \A n \in 0 .. MaxBucket :
              LET b == Bucket(n)
              IN  /\ b = DocBucket(n)
                  /\ b >= n
                  /\ b \in SupportedCapacities
                  /\ \A c \in SupportedCapacities : c >= n => b <= c
                  /\ n > 0 => Bucket(n - 1) <= b
    /\ (rev = "A" /\ storage = "stack") =>
          /\ Len(mem) = DocBucket(size)
          /\ Len(mem) >= size

\* C5 witness: a requested size of 4065 was placed in the frame's array of
\* 4096 elements.
C5_Witness ==
    /\ rev = "A"
    /\ storage = "stack"
    /\ size = 4065
    /\ Len(mem) = 4096

\* C6: inplace_array_uninitialized invokes the consumer with the frame's
\* slice of exactly bucket(size) elements when 1 <= size <= 4096 and the
\* bucket's bytes are within the limit, and with a heap slice of exactly size
\* elements when 1 <= size and the bucket's bytes exceed the limit or
\* size > 4096.
C6_PlacementByBucketBytes ==
    (entry = "inplace_array_uninitialized" /\ size >= 1) =>
        IF size <= MaxBucket /\ elemSize * DocBucket(size) <= limit
        THEN storage = "stack" /\ seenLen = DocBucket(size) /\ Len(mem) = seenLen
        ELSE storage = "heap" /\ seenLen = size /\ Len(mem) = seenLen

\* C6 witness: 33 one-byte elements fit a limit of 40 bytes, their 64-element
\* bucket does not: the consumer got a heap slice of 33.
C6_Witness ==
    /\ entry = "inplace_array_uninitialized"
    /\ size = 33
    /\ elemSize = 1
    /\ limit = 40
    /\ storage = "heap"
    /\ seenLen = 33

\* C7: once inplace_array has invoked the consumer, the slice it invoked it
\* with has exactly size elements and its element i is init(i), from the
\* frame and from the heap.
C7_InplaceArrayContents ==
    (entry = "inplace_array" /\ invoked > 0) =>
        /\ Len(seen) = size
        /\ \A i \in 0 .. size - 1 :
              seen[i + 1] = InitValue(lastOp.fn, i)

\* C7 witness: inplace_array(100, index * 2) passed 0, 2, ..., 198 from the
\* frame's array of 128.
C7_Witness ==
    /\ entry = "inplace_array"
    /\ size = 100
    /\ storage = "stack"
    /\ Len(mem) = 128
    /\ lastOp.fn = "double"
    /\ seen[1] = 0
    /\ seen[2] = 2
    /\ seen[100] = 198

\* C8: init_copy_of(source), with a source no longer than the guard, leaves
\* the consumer an initialized guard of the source's length whose elements
\* equal the source's; inplace_copy_of(source) invokes the consumer with a
\* slice equal to the source.
C8_RoundTripCopy ==
    /\ (/\ entry \in {"inplace_or_alloc_array", "alloc_array"}
        /\ lastOp.op = "init_copy_of"
        /\ Len(lastOp.src) <= lastOp.parent.len)
          => /\ guard.st = "init"
             /\ guard.len = Len(lastOp.src)
             /\ Deref(mem, guard) = lastOp.src
    /\ entry = "inplace_copy_of" => seen = lastOp.src

\* C8 for the guards of the MaybeUninit revision and for inplace_copy_of.
C8_RoundTripCopy_MaybeUninit ==
    rev # "B" => C8_RoundTripCopy

\* The case of C8 happened on the guards of the MaybeUninit revision: a
\* two-element source was copied into a longer guard.
C8_Witness ==
    /\ rev = "C"
    /\ lastOp.op = "init_copy_of"
    /\ Len(lastOp.src) = 2
    /\ lastOp.parent.len = 10
    /\ guard = InitGuard(lastOp.parent.start, 2)

\* C9: slice(range) of a guard of length L, with the range's own ends
\* a <= b <= L, leaves the consumer, until it returns, a guard of length
\* b - a whose element j is the parent's element a + j.
C9_SliceMapsRange ==
    (/\ lastOp.op = "slice"
     /\ InBounds(lastOp.range, lastOp.parent.len)
     /\ pc \notin {"consumer_done", "returned"})
        => guard = UninitGuard(lastOp.parent.start + RangeLow(lastOp.range),
                               RangeHigh(lastOp.range, lastOp.parent.len)
                                   - RangeLow(lastOp.range))

\* C9 for the guards of the MaybeUninit revision.
C9_SliceMapsRange_MaybeUninit ==
    rev # "B" => C9_SliceMapsRange

\* The case of C9 happened on the guards of the MaybeUninit revision: a
\* guard of length 10 sliced to 3..7 covers the slots 3..6.
C9_Witness ==
    /\ rev = "C"
    /\ lastOp.op = "slice"
    /\ lastOp.parent = UninitGuard(0, 10)
    /\ lastOp.range = [s |-> Included(3), e |-> Excluded(7)]
    /\ guard = UninitGuard(3, 4)

\* C10: UninitializedSliceMemoryGuard::slice with a range that is not within
\* the guard unwinds and leaves the consumer no guard; a guard it does return
\* lies within the guard it was taken from.
C10_OutOfBoundsSliceIsFatal ==
    (rev = "C" /\ lastOp.op = "slice") =>
        /\ ~InBounds(lastOp.range, lastOp.parent.len)
              => pc \in {"unwinding", "panicked"} /\ guard = NoGuard
        /\ guard.st = "uninit"
              => /\ lastOp.parent.start <= guard.start
                 /\ guard.start + guard.len <= lastOp.parent.start + lastOp.parent.len

\* C10 witness: a guard of length 10 sliced to 3..11 unwound the call.
C10_Witness ==
    /\ rev = "C"
    /\ pc = "panicked"
    /\ lastOp.op = "slice"
    /\ lastOp.parent = UninitGuard(0, 10)
    /\ lastOp.range = [s |-> Included(3), e |-> Excluded(11)]
    /\ guard = NoGuard

\* No event of the call so far touched a slot or called an initializer.
NothingTouched == \A k \in 1 .. Len(log) : log[k].ev \in {"invoke", "release"}

\* The consumer's last operation was init_copy_of on a slice guard.
CopiedInto == rev \in {"B", "C"} /\ lastOp.op = "init_copy_of"

\* C11: init_copy_of with a source longer than the guard unwinds and leaves
\* the consumer no guard; no source element was cloned, no slot of the
\* storage was written and no destructor ran, whatever follows.
C11_LongerSourceIsFatal ==
    (CopiedInto /\ Len(lastOp.src) > lastOp.parent.len) =>
        /\ pc \in {"unwinding", "panicked"}
        /\ guard = NoGuard
        /\ NothingTouched
        /\ \A i \in 1 .. Len(mem) : mem[i].writes = 0 /\ mem[i].drops = 0

\* C11 for the guards of the MaybeUninit revision.
C11_LongerSourceIsFatal_MaybeUninit ==
    rev # "B" => C11_LongerSourceIsFatal

\* The case of C11 happened on the guards of the MaybeUninit revision: a
\* two-element source handed to a guard of length 1 unwound the call.
C11_Witness ==
    /\ rev = "C"
    /\ pc = "panicked"
    /\ lastOp.op = "init_copy_of"
    /\ Len(lastOp.src) = 2
    /\ lastOp.parent = UninitGuard(0, 1)
    /\ mem[1].writes = 0

\* How many times the consumer was invoked, by the events of the call.
Invocations == Cardinality({k \in 1 .. Len(log) : log[k].ev = "invoke"})

\* C12: inplace_or_alloc_array, alloc_array and inplace never invoke the
\* consumer twice, from the frame and from the heap path together; when the
\* call has returned the consumer was invoked exactly once and the call's
\* result is what the consumer returned.
C12_ConsumerOnceResultUnchanged ==
    entry \in {"inplace_or_alloc_array", "alloc_array", "inplace"} =>
        /\ invoked <= 1
        /\ Invocations = invoked
        /\ pc = "consumer" => invoked = 1
        /\ Returned => /\ invoked = 1
                       /\ result \in Results
                       /\ returnValue = result

\* C12 witness: inplace_or_alloc_array(33) of a 128-byte element had the
\* consumer handed back by the frame path, invoked it once on the heap path
\* and returned its result r2.
C12_Witness ==
    /\ Returned
    /\ entry = "inplace_or_alloc_array"
    /\ storage = "heap"
    /\ size = 33
    /\ invoked = 1
    /\ result = "r2"
    /\ returnValue = "r2"

\* The unwinding of the call has ended.
Panicked == pc = "panicked"

\* The consumer of a guard-based entry point initialized elements through the
\* guard; the initialized guard went out of scope, in the consumer or by the
\* unwinding of it.
InitializedAndDropped == rev \in {"B", "C"} /\ lastOp.op = "drop"

\* C13: when the consumer initialized elements through the guard and the call
\* has ended, by the consumer's return or by the unwinding of its failure
\* alike, the storage is released, the destructor ran exactly once on each
\* initialized element and on no other slot, and on no slot without a live
\* value.
C13_UnwindingStillDestructs ==
    (InitializedAndDropped /\ (Returned \/ Panicked)) =>
        /\ released
        /\ \A i \in 1 .. Len(mem) :
              /\ mem[i].writes = (IF InGuard(lastOp.parent, i)
                                  THEN ValuesHeld(lastOp.parent, i) ELSE 0)
              /\ mem[i].drops = mem[i].writes
        /\ ~ub

\* C13 for the guards and the vector of the MaybeUninit revision.
C13_UnwindingStillDestructs_MaybeUninit ==
    rev # "B" => C13_UnwindingStillDestructs

\* The case of C13 happened in the MaybeUninit revision: the consumer of
\* alloc_array(3) initialized the three elements and failed; the unwinding
\* dropped the guard and released the vector.
C13_Witness ==
    /\ Panicked
    /\ rev = "C"
    /\ entry = "alloc_array"
    /\ size = 3
    /\ released
    /\ lastOp.op = "drop"
    /\ lastOp.parent = InitGuard(0, 3)
    /\ \A i \in 1 .. 3 : mem[i].drops = 1

\* C14: of an array placed in the frame, the slots beyond the requested size
\* are never destructed: their destructor count stays 0 and no destruction
\* event names them, up to and including the end of the frame.
C14_NoDestructorOnSlack ==
    storage = "stack" =>
        /\ \A i \in size + 1 .. Len(mem) : mem[i].drops = 0
        /\ \A k \in 1 .. Len(log) : log[k].ev = "drop" => log[k].at < size

\* C14 for the guard-based entry points.
C14_NoDestructorOnSlack_Guards ==
    rev # "A" => C14_NoDestructorOnSlack

\* The case of C14 happened on the guard-based frame path: the call for 33
\* elements returned from the bucket of 64 with the 33 elements destructed
\* and the 31 slack slots untouched.
C14_Witness ==
    /\ Returned
    /\ rev = "C"
    /\ storage = "stack"
    /\ size = 33
    /\ Len(mem) = 64
    /\ mem[33].drops = 1
    /\ mem[34].drops = 0
    /\ mem[64].drops = 0

\* C15: when a call of the MaybeUninit revision has ended, by return or by
\* unwinding, every slot an element was written to had its destructor run
\* exactly once -- in particular the slots 0 .. k-1 written before the
\* initializer given to init unwound at index k.
C15_WrittenElementsDestructed ==
    (rev = "C" /\ (Returned \/ Panicked)) =>
        \A i \in 1 .. Len(mem) : mem[i].writes > 0 => mem[i].drops = mem[i].writes

\* C16: init_copy_of with a source of length m shorter than the guard's
\* length L leaves the consumer an initialized guard over the first m slots
\* of the guard, holding the source's elements; the slots m .. L-1 were not
\* written, hold no value and had no destructor run, and no event names them.
C16_ShorterSourceInitializesPrefix ==
    (CopiedInto /\ Len(lastOp.src) < lastOp.parent.len) =>
        LET p == lastOp.parent
            m == Len(lastOp.src)
        IN  /\ guard = InitGuard(p.start, m)
            /\ Deref(mem, guard) = lastOp.src
            /\ \A i \in 1 .. Len(mem) :
                  (InGuard(p, i) /\ ~InGuard(guard, i)) =>
                      mem[i] = FreshSlot
            /\ \A k \in 1 .. Len(log) :
                  log[k].ev \in {"write", "drop"} =>
                      (p.start <= log[k].at /\ log[k].at < p.start + m)

\* The rest of the guard stays untouched when the initialized prefix goes out
\* of scope and the call ends: in the MaybeUninit revision only the slots of
\* a dropped guard were ever written or destructed.
C16_RestNeverDestructed ==
    (rev = "C" /\ lastOp.op = "drop") =>
        \A i \in 1 .. Len(mem) :
            ~InGuard(lastOp.parent, i) => mem[i] = FreshSlot

\* C16 for the guards of the MaybeUninit revision.
C16_ShorterSourceInitializesPrefix_MaybeUninit ==
    /\ rev # "B" => C16_ShorterSourceInitializesPrefix
    /\ C16_RestNeverDestructed

\* The case of C16 happened on the guards of the MaybeUninit revision: a
\* two-element source was copied into a guard of length 4, whose slots 2 and
\* 3 stayed untouched.
C16_Witness ==
    /\ rev = "C"
    /\ lastOp.op = "init_copy_of"
    /\ Len(lastOp.src) = 2
    /\ lastOp.parent = UninitGuard(0, 4)
    /\ guard = InitGuard(0, 2)
    /\ mem[2].live
    /\ mem[3] = FreshSlot
    /\ mem[4] = FreshSlot

\* The consumer's last operation was init / init_slice with an initializer on
\* a slice guard.
InitializedSlice ==
    /\ rev \in {"B", "C"}
    /\ entry # "inplace"
    /\ lastOp.op = "init"
    /\ lastOp.parent.st = "uninit"

\* The number of calls init makes of its initializer on a guard of length
\* len: one per index, up to and including the call that unwinds.
CallsMade(f, len) ==
    IF f = "failing" /\ len > FailingIndex THEN FailingIndex + 1 ELSE len

\* The number of items init writes on a guard of length len.
ItemsWritten(f, len) ==
    IF f = "failing" /\ len > FailingIndex THEN FailingIndex ELSE len

\* C17: init on a slice guard calls the initializer with the indices
\* 0, 1, 2, ... in this order, once each, and writes the result of the call
\* for index i to slot i of the guard before the next call; it makes no other
\* call and no other write.
C17_InitAscendingOncePerIndex ==
    InitializedSlice =>
        LET g == lastOp.parent
            calls == CallsMade(lastOp.fn, g.len)
            written == ItemsWritten(lastOp.fn, g.len)
        IN  /\ Len(log) >= 1 + calls + written
            /\ \A i \in 0 .. calls - 1 : log[2 + 2 * i] = Call(i)
            /\ \A i \in 0 .. written - 1 :
                  /\ log[3 + 2 * i] = Write(g.start + i)
                  /\ mem[g.start + i + 1].val = InitValue(lastOp.fn, i)
                  /\ mem[g.start + i + 1].writes = 1
            /\ \A k \in 1 .. Len(log) :
                  log[k].ev \in {"call", "write"} => k <= 1 + calls + written
            /\ written = g.len => guard = InitGuard(g.start, g.len)

\* C17 witness: init(index * 2) on the guard of alloc_array(4), guards.rs
\* revision: init(0), write 0, ..., init(3), write 3, leaving 0, 2, 4, 6.
C17_Witness ==
    /\ rev = "B"
    /\ lastOp.op = "init"
    /\ lastOp.fn = "double"
    /\ lastOp.parent = UninitGuard(0, 4)
    /\ log = <<Invoke, Call(0), Write(0), Call(1), Write(1),
               Call(2), Write(2), Call(3), Write(3)>>
    /\ Deref(mem, guard) = <<0, 2, 4, 6>>

\* An initialized slice guard went out of scope and the call has not ended by
\* unwinding: the drop of the guard ran to its end, or it ended the process.
SliceGuardDropped ==
    /\ rev \in {"B", "C"}
    /\ entry # "inplace"
    /\ lastOp.op = "drop"
    /\ lastOp.parent.st = "init"
    /\ \/ pc \in {"consumer", "unwinding", "consumer_done", "returned"}
       \/ pc = "aborted" /\ ~released

\* C18: when an initialized slice guard of length N went out of scope, the
\* destructors of its slots ran in the order slot 0, slot 1, ..., slot N-1 of
\* the guard, once each, and no other destructor ran but that of a value the
\* consumer replaced by assignment, before the new value was stored.
C18_DropFrontToBack ==
    SliceGuardDropped =>
        LET g == lastOp.parent
            first == Len(log) - (IF released THEN 1 ELSE 0) - g.len
        IN  /\ first >= 1
            /\ \A j \in 1 .. g.len :
                  /\ log[first + j] = Drop(g.start + j - 1)
                  /\ mem[g.start + j].drops = ValuesHeld(g, g.start + j)
            /\ \A k \in 1 .. Len(log) :
                  log[k].ev = "drop" =>
                      \/ k > first
                      \/ k < Len(log) /\ log[k + 1] = Write(log[k].at)

\* C18 for the guards of slice_memory_guard.rs, whose drop is
\* drop_in_place(item) for every item.
C18_DropFrontToBack_MaybeUninit ==
    rev = "C" => C18_DropFrontToBack

\* C18 for every drop of a slice guard that ran to its end: what guards.rs
\* keeps of the claim when uninitialized() returns.
C18_DropFrontToBack_Completed ==
    pc # "aborted" => C18_DropFrontToBack

\* C18 witness: the guard over the slots 3..6 of alloc_array(10), initialized
\* after slicing, was dropped: slot 3 first, slot 6 last.
C18_Witness ==
    /\ rev = "C"
    /\ pc = "consumer"
    /\ lastOp.op = "drop"
    /\ lastOp.parent = InitGuard(3, 4)
    /\ SubSeq(log, Len(log) - 3, Len(log)) = <<Drop(3), Drop(4), Drop(5), Drop(6)>>

\* The call took the heap path of alloc_array.rs.
OnHeapPath ==
    /\ rev = "C"
    /\ storage = "heap"
    /\ entry \in {"alloc_array", "inplace_or_alloc_array"}

\* C19: on the heap path of alloc_array / inplace_or_alloc_array the release
\* of the vector is the last event of the call: no slot is written or
\* destructed and no initializer runs after it; when the call has returned the
\* vector is released, and every slot the consumer wrote an element to was
\* destructed by the drop of the guard, an event before the release.
C19_HeapDropThenReleaseThenReturn ==
    OnHeapPath =>
        /\ \A k \in 1 .. Len(log) : log[k] = Release => k = Len(log)
        /\ released <=> (Len(log) > 0 /\ log[Len(log)] = Release)
        /\ Returned =>
              /\ released
              /\ \A i \in 1 .. Len(mem) :
                    mem[i].writes > 0 =>
                        /\ lastOp.op = "drop"
                        /\ InGuard(lastOp.parent, i)
                        /\ LET g == lastOp.parent
                               k == Len(log) - g.len + (i - 1) - g.start
                           IN  k < Len(log) /\ log[k] = Drop(i - 1)

\* C19 witness: inplace_or_alloc_array(33) of a 128-byte element returned
\* from the heap path: the 33 destructions, then the release, end the call.
C19_Witness ==
    /\ Returned
    /\ rev = "C"
    /\ entry = "inplace_or_alloc_array"
    /\ storage = "heap"
    /\ size = 33
    /\ lastOp.op = "drop"
    /\ lastOp.parent = InitGuard(0, 33)
    /\ SubSeq(log, Len(log) - 3, Len(log)) = <<Drop(30), Drop(31), Drop(32), Release>>

\* The consumer was invoked: the call is in it or past it.
ConsumerReached == pc \in {"consumer", "consumer_done", "returned", "unwinding", "panicked"}

\* C20: for a requested size of 0, inplace_or_alloc_array, alloc_array and
\* inplace_array_uninitialized with every limit invoke the consumer, once,
\* with a slice of length 0; the storage has no slot, no destructor runs, and
\* inplace_array_uninitialized places the storage in the frame whatever the
\* limit.
C20_SizeZero ==
    (/\ size = 0
     /\ entry \in {"inplace_or_alloc_array", "alloc_array", "inplace_array_uninitialized"}
     /\ pc \notin {"try_inplace_array", "alloc_array"}) =>
        /\ ConsumerReached
        /\ invoked = 1
        /\ seenLen = 0
        /\ Len(mem) = 0
        /\ \A k \in 1 .. Len(log) : log[k].ev # "drop"
        /\ ~ub
        /\ entry = "inplace_array_uninitialized" => storage = "stack"

\* C20 witness: inplace_array_uninitialized(0) with a limit of 0 bytes
\* returned after it invoked the consumer with the frame's empty array.
C20_Witness ==
    /\ Returned
    /\ entry = "inplace_array_uninitialized"
    /\ size = 0
    /\ limit = 0
    /\ elemSize = 128
    /\ storage = "stack"
    /\ invoked = 1
    /\ seenLen = 0

\* C21: the step that releases the vector of an alloc_array leaves every slot
\* as it was: it runs no destructor, neither on a slot a guard already
\* destructed nor on a slot that was never initialized, when the consumer
\* returned and when it unwound.
C21_VectorReleaseDestructsNothing ==
    [][(storage = "heap" /\ ~released /\ released') => (mem' = mem /\ ub' = ub)]_vars

\* C21 for the vector of MaybeUninit<T> of alloc_array.rs.
C21_VectorReleaseDestructsNothing_MaybeUninit ==
    [][(rev = "C" /\ storage = "heap" /\ ~released /\ released')
           => (mem' = mem /\ ub' = ub)]_vars

\* The case of C21 happened in alloc_array.rs: the vector of alloc_array(4)
\* was released by the unwinding after the consumer initialized and dropped
\* the slots 0 and 1 only; each of them was destructed once, the slots 2 and 3
\* never.
C21_Witness ==
    /\ Panicked
    /\ rev = "C"
    /\ entry = "alloc_array"
    /\ released
    /\ size = 4
    /\ lastOp.op = "drop"
    /\ lastOp.parent = InitGuard(0, 2)
    /\ mem[1].drops = 1
    /\ mem[2].drops = 1
    /\ mem[3] = FreshSlot
    /\ mem[4] = FreshSlot

\* The largest array length fixed_array.rs names for a pointer width.
LargestLength(width) ==
    CASE width = 8 -> 127
      [] width = 16 -> 65535
      [] OTHER -> 1048575

\* The impls of a list for arrays of length n.
ImplsOf(impls, n) == {k \in 1 .. Len(impls) : impls[k].array = n}

\* C22: for every pointer width, every array length from 0 to the largest
\* one has exactly one impl of FixedArray, and len() of every impl returns
\* the length of its array.
C22_FixedArrayLengthsGapFree ==
    pc = "idle" =>
        \A width \in PointerWidths :
            LET impls == FixedArrayImpls(width)
            IN  /\ \A n \in 0 .. LargestLength(width) :
                      Cardinality(ImplsOf(impls, n)) = 1
                /\ \A k \in 1 .. Len(impls) : impls[k].len = impls[k].array

\* The array lengths a list of impls covers.
LengthsOf(impls) == {impls[k].array : k \in 1 .. Len(impls)}

\* What the macros of fixed_array.rs do implement: no length twice, len() the
\* length of the array, the largest length 127, 65535 and 1048575; below that,
\* only the multiples of 10 and the ranges of the group_10 invocations and of
\* the hand-written tail, and for the pointer width 16 no length of
\* 65000 .. 65099.
C22_FixedArrayLengthsAsBuilt ==
    pc = "idle" =>
        /\ \A width \in {8, 16} :
              LET impls == FixedArrayImpls(width)
              IN  /\ Cardinality(LengthsOf(impls)) = Len(impls)
                  /\ \A k \in 1 .. Len(impls) : impls[k].len = impls[k].array
                  /\ LargestLength(width) \in LengthsOf(impls)
                  /\ \A n \in LengthsOf(impls) : n <= LargestLength(width)
        /\ LengthsOf(FixedArrayImpls8)
              = {10 * k : k \in 0 .. 9} \cup (100 .. 127)
        /\ LengthsOf(FixedArrayImpls16)
              = {10 * k : k \in 0 .. 6499} \cup {65100 + 10 * k : k \in 0 .. 39}
                    \cup (65500 .. 65535)
        /\ LET impls == FixedArrayImpls32
               lengths == LengthsOf(impls)
           IN  /\ Cardinality(lengths) = Len(impls)
               /\ lengths = {10 * k : k \in 0 .. 104849} \cup (1048500 .. 1048575)

====
